---------------------------- MODULE Spec2Model ----------------------------
(***************************************************************************)
(* A model of the two sensory streams of opencog/atoms:                    *)
(*   TextFileStream  (opencog/atoms/filedir/TextFileStream.cc)             *)
(*   TerminalStream  (opencog/atoms/terminal/TerminalStream.cc)            *)
(*                                                                         *)
(* The state is ONE stream object (its dynamic type is chosen when it is   *)
(* constructed) together with the operating-system resources behind it:    *)
(* the bytes of the backing file (or of the terminal display), the stdio   *)
(* buffer of the FILE handle, the read position, the pty master            *)
(* descriptor and the spawned xterm child.                                 *)
(*                                                                         *)
(* Text is a sequence of one-character strings, so that prefix tests,      *)
(* substr(), fgets() chunking and fprintf() are computed as the code       *)
(* computes them.                                                          *)
(***************************************************************************)
EXTENDS Integers, Sequences, FiniteSets, TLC

VARIABLES
    phase,      \* "new" | "live" | "failed" (constructor threw) | "dead"
    type,       \* "TextFileStream" | "TerminalStream"
    uri,        \* _uri: the URL as given (TextFileStream)
    fh,         \* _fh: TRUE = open FILE handle, FALSE = nullptr
    fresh,      \* _fresh
    value,      \* _value: a sequence of zero or one item (the item's name)
    xterm_pid,  \* _xterm_pid: 0, XtermPid, or -1 while fork() has failed
    role,       \* which process holds the object: "parent" | "child"
    file,       \* the bytes the OS holds behind _fh
    rpos,       \* number of bytes of file already consumed by reads
    wbuf,       \* bytes fprintf'd to _fh and not yet flushed
    fd,         \* TRUE while the pty master descriptor is open
    fpath,      \* the path fopen() was last called with
    nopen,      \* number of fopen() calls made by the constructor
    kills,      \* number of SIGKILLs sent to the xterm child (saturating)
    op,         \* the last operation called
    err,        \* the exception the last operation threw, or NoError
    arg,        \* the argument of the last call: the cref of write_out, the
                \* URL (as a node) or descriptor given to the constructor
    ret,        \* the value the last write_out returned (Null if none)
    rd,         \* what fgets() returned in the last operation:
                \* "none" (not called) | "line" | "nullptr"
    eof,        \* TRUE once an update() has seen fgets() return nullptr
    nexec,      \* number of cref->execute() calls made by the last write_out
    npull,      \* number of lvp->value() pulls made by the last write_out
    nprt,       \* number of top-level prt_value() calls of the last write_out
    pc,         \* "idle" | "drain": write_out is inside its while(true) loop
    lvp,        \* the stream value being drained (its remaining batches)
    nupd,       \* number of update() calls so far (saturating at CapCalls)
    nhalt,      \* number of halt() calls so far (saturating at CapCalls)
    sink0,      \* the sink as it was when the last write_out was entered
    got,        \* the text of all lines update() has read from the file
    file0,      \* the bytes the file held when it was opened
    killed_open,\* TRUE once a SIGKILL was sent while _fh was still open
    global_desc,\* _global_desc (Null: Handle::UNDEFINED)
    description \* _description (Null: Handle::UNDEFINED)

vars == <<phase, type, uri, fh, fresh, value, xterm_pid, role, file, rpos,
          wbuf, fd, fpath, nopen, kills, op, err, arg, ret, rd, eof, nexec,
          npull, nprt, pc, lvp, nupd, nhalt, sink0, got, file0, killed_open,
          global_desc, description>>

\* The capability description: the process-wide one and the stream's own.
descvars == <<global_desc, description>>

\* The part of the state that is the object and its OS resources (everything
\* but the bookkeeping about the last call).
objvars == <<phase, type, uri, fh, fresh, value, xterm_pid, role, file, rpos,
             wbuf, fd, fpath, kills>>

-----------------------------------------------------------------------------
(* Bounds of the model *)

\* The sink (file bytes plus buffered bytes) never grows beyond this.
MaxSink == 8

\* Call counters saturate here.
CapCalls == 2

\* Widest container among the serializer's inputs.
MaxWidth == 2

(* Program constants *)

\* TextFileStream.cc:131 and TerminalStream.cc:182, "#define BUFSZ 4080",
\* scaled down so that a physical line longer than the buffer fits the
\* model: fgets(buff, BUFSZ, fh) stores at most BUFSZ-1 characters.
BUFSZ == 3

\* The pid fork() returns to the parent.
XtermPid == 7

-----------------------------------------------------------------------------
(* Text *)

Min(a, b) == IF a < b THEN a ELSE b

NL == "\n"

ab  == <<"a", "b">>
cd  == <<"c", "d">>
foo == <<"f", "o", "o">>

FILE_PREFIX == <<"f", "i", "l", "e", ":", "/", "/", "/">>

\* std::string::compare(pos, len, str) == 0
compare0(s, pos, len, str) ==
    SubSeq(s, pos + 1, Min(pos + len, Len(s))) = str

\* std::string::substr(pos)
substr(s, pos) == SubSeq(s, pos + 1, Len(s))

RECURSIVE Concat(_)
Concat(ss) == IF ss = <<>> THEN <<>> ELSE Head(ss) \o Concat(Tail(ss))

-----------------------------------------------------------------------------
(* Values and atoms.  Every value is a record [kind, name, strs, kids,     *)
(* loop]: name is used by nodes, strs by StringValue, kids by the          *)
(* containers and (kids, loop) by streams.                                 *)

Val(k, n, ss, ks, l) ==
    [kind |-> k, name |-> n, strs |-> ss, kids |-> ks, loop |-> l]

Null              == Val("null", <<>>, <<>>, <<>>, FALSE)
StringValue(strs) == Val("StringValue", <<>>, strs, <<>>, FALSE)
Node(name)        == Val("ItemNode", name, <<>>, <<>>, FALSE)
LinkValue(vals)   == Val("LinkValue", <<>>, <<>>, vals, FALSE)
ListLink(oset)    == Val("ListLink", <<>>, <<>>, oset, FALSE)
SetLink(oset)     == Val("SetLink", <<>>, <<>>, oset, FALSE)
\* A link that is neither a list nor a set, and is not executable.
EdgeLink(oset)    == Val("EdgeLink", <<>>, <<>>, oset, FALSE)
FloatValue        == Val("FloatValue", <<>>, <<>>, <<>>, FALSE)
\* An executable link; execute() returns kids[1] (Null: nothing).
ExecLink(result)  == Val("ExecutionOutputLink", <<>>, <<>>, <<result>>, FALSE)
\* A streaming value.  kids are its batches still to come, each wrapped as a
\* LinkValue: a pull returns the first of them; after the last batch the
\* producer keeps returning that batch (loop) or returns the empty batch.
LinkStream(batches, loop) == Val("LinkStreamValue", <<>>, <<>>, batches, loop)

\* LinkValue::value(): the elements; of a stream, its current batch.
value_of(v) ==
    IF v.kind = "LinkStreamValue"
      THEN IF v.kids = <<>> THEN <<>> ELSE Head(v.kids).kids
      ELSE v.kids

\* The stream after one pull.
pulled(v) ==
    IF v.kids = <<>> \/ (Len(v.kids) = 1 /\ v.loop) THEN v
    ELSE [v EXCEPT !.kids = Tail(v.kids)]

\* Value::is_type(t): t or a type derived from t.
is_type(v, t) ==
    CASE t = "STRING_VALUE"      -> v.kind = "StringValue"
      [] t = "NODE"              -> v.kind \in {"ItemNode", "ConceptNode",
                                                "SensoryNode"}
      [] t = "LINK_VALUE"        -> v.kind \in {"LinkValue", "LinkStreamValue"}
      [] t = "LINK_STREAM_VALUE" -> v.kind = "LinkStreamValue"
      [] OTHER                   -> FALSE

\* Value::get_type() == LIST_LINK or SET_LINK
is_list_or_set(v) == v.kind \in {"ListLink", "SetLink"}

\* Atom::is_executable()
is_executable(v) == v.kind = "ExecutionOutputLink"

\* Value::size() of a LinkValue
size(v) == Len(value_of(v))

-----------------------------------------------------------------------------
(* The serializer: TextFileStream::prt_value.  The result is the text it   *)
(* fprintf's to _fh and whether it threw ("Expecting strings, got ...");   *)
(* what was printed before the throw stays printed.                        *)

\* Lines 150-157: every string of the StringValue, "%s", no separator.
prt_strings(content) == Concat(content.strs)

\* A variant of the node branch whose format lacks the leading space.
prt_node_nospace(content) == content.name

\* Lines 158-163: " %s" of the node's name.
prt_node(content) == <<" ">> \o content.name

RECURSIVE prt_value(_), prt_each(_)

\* The loops of lines 168-169 and 179-180: the elements in order; a throw
\* ends the loop.
prt_each(vals) ==
    IF vals = <<>> THEN [out |-> <<>>, thrown |-> FALSE]
    ELSE LET h == prt_value(Head(vals)) IN
         IF h.thrown THEN h
         ELSE LET t == prt_each(Tail(vals)) IN
              [out |-> h.out \o t.out, thrown |-> t.thrown]

prt_value(content) ==
    IF is_type(content, "STRING_VALUE")
      THEN [out |-> prt_strings(content), thrown |-> FALSE]
    ELSE IF is_type(content, "NODE")
      THEN [out |-> prt_node(content), thrown |-> FALSE]
    ELSE IF is_type(content, "LINK_VALUE")
      THEN prt_each(value_of(content))
    ELSE IF is_list_or_set(content)
      THEN prt_each(content.kids)
    ELSE [out |-> <<>>, thrown |-> TRUE]

-----------------------------------------------------------------------------
(* The exceptions.  The code throws RuntimeException everywhere; an error  *)
(* is identified by the message of its throw site.                         *)

NoError        == "none"
E_SENSORY      == "Expecting SensoryNode"
E_UNSUPPORTED  == "Unsupported URL"
E_OPEN         == "Unable to open URL"
E_NOT_OPEN     == "Text stream not open"
E_NOTHING      == "Expecting something to write"
E_STRINGS      == "Expecting strings"
E_PTY_OPEN     == "Can't open PTY"
E_PTY_UNLOCK   == "Can't unlock PTY"
E_PTY_NAME     == "Can't get PTY name"
E_FORK         == "Failed to fork"

-----------------------------------------------------------------------------
(* stdio on the handle _fh *)

\* Number of characters fgets(buff, BUFSZ, fh) stores when the stream holds
\* f and p characters of it are consumed: up to and including the next
\* newline, at most BUFSZ - 1, 0 at end of file (fgets returns nullptr).
fgets_len(f, p) ==
    LET lim == Min(Len(f) - p, BUFSZ - 1)
        nls == {i \in 1..lim : f[p + i] = NL}
    IN  IF nls = {} THEN lim
        ELSE CHOOSE i \in nls : \A j \in nls : i <= j

\* What fgets stores in buff; <<>> stands for the nullptr return.
fgets(f, p) == SubSeq(f, p + 1, p + fgets_len(f, p))

\* fflush / fclose / the switch from writing to reading: the buffered bytes
\* go to the end of the file (the handle is opened "a+").
flushed(f, w) == f \o w

\* The read position after the buffered bytes w were written: an append
\* leaves the file offset of a regular file at its end; a terminal has no
\* position.
flushed_rpos(t, f, w, p) ==
    IF t = "TextFileStream" /\ w # <<>> THEN Len(f) + Len(w) ELSE p

-----------------------------------------------------------------------------
(* Inputs *)

\* URLs given to the TextFileStream constructor.
URLS ==
    { <<"f","i","l","e",":","/","/","/","t">>,          \* file:///t
      <<"f","i","l","e",":","/","/","/">>,              \* file:///
      <<"f","i","l","e",":","/","t">>,                  \* file:/t
      <<"f","i","l","e",":","/","/","h","/","t">>,      \* file://h/t
      <<"f","i","l","e",":","/","/",".","/","t">>,      \* file://./t
      <<"f","i","l","e",":","/","/">>,                  \* file://
      <<"h","t","t","p",":","/","/","/","t">>,          \* http:///t
      <<>> }

\* What the file holds when it is opened.
Files ==
    { <<>>,
      <<"a", NL>>,
      <<"a", "b", "c", NL, "d">> }

\* What a read of the terminal can deliver.
TermChunks == { <<"y", NL>>, <<"n", "o">> }

\* Bytes found where a destroyed string used to be.
Garbage == <<"?">>

\* Arguments of write_out.  A cref is an atom: a node, a link, or an
\* executable link (what it evaluates to may be any value, or nothing).
Contents ==
    { Node(foo),
      ListLink(<<Node(ab), SetLink(<<Node(cd)>>)>>),
      EdgeLink(<<Node(ab)>>),
      ListLink(<<Node(ab), EdgeLink(<<>>)>>),
      ExecLink(Null),
      ExecLink(StringValue(<<ab, cd>>)),
      ExecLink(LinkValue(<<StringValue(<<ab>>), LinkValue(<<>>), Node(cd)>>)),
      ExecLink(LinkValue(<<StringValue(<<cd>>), FloatValue>>)),
      ExecLink(FloatValue),
      ExecLink(LinkStream(<<>>, FALSE)),
      ExecLink(LinkStream(<<LinkValue(<<StringValue(<<ab>>)>>),
                            LinkValue(<<LinkValue(<<>>), Node(cd)>>)>>, FALSE)),
      ExecLink(LinkStream(<<LinkValue(<<LinkValue(<<>>)>>)>>, TRUE)),
      ExecLink(LinkStream(<<LinkValue(<<LinkValue(<<>>), LinkValue(<<>>)>>)>>,
                          TRUE)),
      ExecLink(LinkStream(<<LinkValue(<<Node(ab)>>)>>, TRUE)),
      ExecLink(LinkStream(<<LinkValue(<<StringValue(<<>>)>>)>>, TRUE)),
      ExecLink(LinkStream(<<LinkValue(<<Node(ab), FloatValue>>)>>, FALSE)),
      ExecLink(LinkStream(<<LinkValue(<<Node(ab)>>),
                            LinkValue(<<Node(cd), FloatValue>>)>>, FALSE)) }

-----------------------------------------------------------------------------
(* The state before any constructor has run *)

Init ==
    /\ phase = "new"
    /\ type = "none"
    /\ uri = <<>>
    /\ fh = FALSE
    /\ fresh = FALSE
    /\ value = <<>>
    /\ xterm_pid = 0
    /\ role = "parent"
    /\ file = <<>>
    /\ rpos = 0
    /\ wbuf = <<>>
    /\ fd = FALSE
    /\ fpath = <<>>
    /\ nopen = 0
    /\ kills = 0
    /\ op = "none"
    /\ err = NoError
    /\ arg = Null
    /\ ret = Null
    /\ rd = "none"
    /\ eof = FALSE
    /\ nexec = 0
    /\ npull = 0
    /\ nprt = 0
    /\ pc = "idle"
    /\ lvp = Null
    /\ nupd = 0
    /\ nhalt = 0
    /\ sink0 = <<>>
    /\ got = <<>>
    /\ file0 = <<>>
    /\ killed_open = FALSE
    /\ global_desc = Null
    /\ description = Null

\* The bookkeeping of a call that is not a write_out.
Called(o, e, a) ==
    /\ op' = o
    /\ err' = e
    /\ arg' = a
    /\ ret' = Null
    /\ nexec' = 0
    /\ npull' = 0
    /\ nprt' = 0
    /\ lvp' = Null
    /\ pc' = "idle"

Sat(n) == Min(n + 1, CapCalls)

-----------------------------------------------------------------------------
(* TextFileStream: construction *)

\* Line 94: url.substr(7).c_str() points into a temporary std::string that
\* is destroyed at the end of that statement, so what fopen() reads through
\* fpath on the next line is indeterminate: the characters may still be
\* there, or the storage may have been reused.
dangling_c_str(s) == {s, Garbage}

\* Line 95, fopen(fpath, "a+"): nullptr, or a handle on a file with some
\* content (created empty if absent).  A directory cannot be opened.
fopen(path) ==
    IF path = <<"/">> THEN {[ok |-> FALSE, content |-> <<>>]}
    ELSE {[ok |-> FALSE, content |-> <<>>]}
         \cup {[ok |-> TRUE, content |-> f] : f \in Files}

\* Lines 82-109.
TextFileStream_init(url) ==
    /\ rd' = "none"
    /\ fresh' = TRUE
    /\ rpos' = 0
    /\ wbuf' = <<>>
    /\ IF ~compare0(url, 0, 8, FILE_PREFIX)
         THEN /\ fh' = FALSE
              /\ Called("init", E_UNSUPPORTED, Node(url))
              /\ phase' = "failed"
              /\ UNCHANGED <<uri, fpath, nopen, file, file0>>
         ELSE /\ uri' = url
              /\ \E path \in dangling_c_str(substr(url, 7)) :
                 \E r \in fopen(path) :
                    /\ fpath' = path
                    /\ nopen' = nopen + 1
                    /\ fh' = r.ok
                    /\ file' = r.content
                    /\ file0' = r.content
                    /\ IF r.ok
                         THEN Called("init", NoError, Node(url))
                              /\ phase' = "live"
                         ELSE Called("init", E_OPEN, Node(url))
                              /\ phase' = "failed"

\* Lines 37-49: the constructors taking the URL as a string.
TextFileStream_ctor ==
    /\ phase = "new"
    /\ type' = "TextFileStream"
    /\ \E url \in URLS : TextFileStream_init(url)
    /\ UNCHANGED <<value, xterm_pid, role, fd, kills, nupd, nhalt, eof>>
    /\ UNCHANGED <<sink0, got, killed_open, descvars>>

\* Descriptors given to the constructor taking a Handle.
Descriptors ==
    { Val("SensoryNode", <<"f","i","l","e",":","/","/","/","t">>,
          <<>>, <<>>, FALSE),
      Val("SensoryNode", <<"f","i","l","e",":","/","t">>, <<>>, <<>>, FALSE),
      Val("ConceptNode", <<"f","i","l","e",":","/","/","/","t">>,
          <<>>, <<>>, FALSE) }

\* Lines 51-59: the constructor taking a Handle.
TextFileStream_ctor_handle ==
    /\ phase = "new"
    /\ type' = "TextFileStream"
    /\ \E senso \in Descriptors :
         IF senso.kind # "SensoryNode"
           THEN /\ Called("init", E_SENSORY, senso)
                /\ phase' = "failed"
                /\ UNCHANGED <<uri, fh, fresh, file, rpos, wbuf, fpath, nopen,
                               rd, file0>>
           ELSE TextFileStream_init(senso.name)
    /\ UNCHANGED <<value, xterm_pid, role, fd, kills, nupd, nhalt, eof>>
    /\ UNCHANGED <<sink0, got, killed_open, descvars>>

\* Lines 61-65: the destructor; fclose writes out what is buffered.
TextFileStream_dtor ==
    /\ phase = "live" /\ type = "TextFileStream" /\ pc = "idle"
    /\ phase' = "dead"
    /\ IF fh
         THEN /\ file' = flushed(file, wbuf)
              /\ rpos' = flushed_rpos(type, file, wbuf, rpos)
              /\ wbuf' = <<>>
         ELSE UNCHANGED <<file, rpos, wbuf>>
    /\ Called("dtor", NoError, Null)
    /\ rd' = "none"
    /\ UNCHANGED <<type, uri, fh, fresh, value, xterm_pid, role, fd, fpath,
                   nopen, kills, nupd, nhalt, eof>>
    /\ UNCHANGED <<sink0, got, file0, killed_open, descvars>>

-----------------------------------------------------------------------------
(* TextFileStream: update *)

\* Line 117.
TextFileStream_update_closed ==
    /\ value' = <<>>
    /\ rd' = "none"
    /\ UNCHANGED <<fh, fresh, file, rpos, wbuf, eof, got>>

\* A variant of the first call that forgets "_fresh = false".
TextFileStream_update_fresh_kept ==
    /\ value' = <<uri>>
    /\ rd' = "none"
    /\ UNCHANGED <<fh, fresh, file, rpos, wbuf, eof, got>>

\* Lines 123-129: the first call returns the URL and reads nothing.
TextFileStream_update_fresh ==
    /\ fresh' = FALSE
    /\ value' = <<uri>>
    /\ rd' = "none"
    /\ UNCHANGED <<fh, file, rpos, wbuf, eof, got>>

\* A variant of the end-of-file branch that closes the handle and forgets
\* "_fh = nullptr".
TextFileStream_update_eof_dangling ==
    /\ fh' = fh
    /\ value' = <<>>

\* Lines 134-140: fgets returned nullptr.
TextFileStream_update_eof ==
    /\ fh' = FALSE
    /\ value' = <<>>

\* Lines 131-143: one fgets.  Output still buffered is written out when the
\* handle turns to reading.
TextFileStream_update_read ==
    LET f1 == flushed(file, wbuf)
        p1 == flushed_rpos(type, file, wbuf, rpos)
        buff == fgets(f1, p1)
    IN  /\ rd' = IF buff = <<>> THEN "nullptr" ELSE "line"
        /\ eof' = (eof \/ buff = <<>>)
        /\ file' = f1
        /\ wbuf' = <<>>
        /\ rpos' = p1 + Len(buff)
        /\ got' = got \o buff
        /\ fresh' = fresh
        /\ IF buff = <<>>
             THEN TextFileStream_update_eof
             ELSE value' = <<buff>> /\ fh' = fh

\* Lines 115-144.
TextFileStream_update ==
    /\ phase = "live" /\ type = "TextFileStream" /\ pc = "idle"
    /\ IF ~fh THEN TextFileStream_update_closed
       ELSE IF fresh THEN TextFileStream_update_fresh
       ELSE TextFileStream_update_read
    /\ op' = "update" /\ err' = NoError
    /\ arg' = Null /\ ret' = Null /\ nexec' = 0 /\ npull' = 0 /\ nprt' = 0
    /\ lvp' = Null /\ pc' = "idle"
    /\ nupd' = Sat(nupd)
    /\ UNCHANGED <<phase, type, uri, xterm_pid, role, fd, fpath, nopen,
                   kills, nhalt, sink0, file0, killed_open, descvars>>

-----------------------------------------------------------------------------
(* TextFileStream: write_out *)

\* A variant of write_out without the check of the handle.
not_open_unchecked == FALSE

\* Line 192: nullptr == _fh
not_open == ~fh

\* A variant of the closed-stream branch that opens the file again instead
\* of throwing.
write_not_open_reopens ==
    /\ err' = NoError
    /\ ret' = Null
    /\ nexec' = 0 /\ npull' = 0 /\ nprt' = 0
    /\ pc' = "idle" /\ lvp' = Null
    /\ fh' = TRUE
    /\ UNCHANGED <<file, rpos, wbuf>>

\* Lines 193-194: the throw of a write on a closed stream; nothing else
\* happens in the call.
write_not_open ==
    /\ err' = E_NOT_OPEN
    /\ ret' = Null
    /\ nexec' = 0 /\ npull' = 0 /\ nprt' = 0
    /\ pc' = "idle" /\ lvp' = Null
    /\ UNCHANGED <<fh, file, rpos, wbuf>>

\* Line 199: cref->execute(as, silent), the caller's evaluator.
execute(cref) == cref.kids[1]

\* A variant of write_out without the test of the evaluation's result.
nothing_to_write_ignored(content) == FALSE

\* Line 200: nullptr == content
nothing_to_write(content) == content = Null

\* A variant of the throw that closes the stream first.
content_error_closes(e) ==
    /\ err' = e
    /\ ret' = Null
    /\ fh' = FALSE
    /\ pc' = "idle"

\* Lines 184-185 and 201-203: the throw of an unwritable content; the
\* exception leaves the stream object as it is.
content_error(e) ==
    /\ err' = e
    /\ ret' = Null
    /\ fh' = fh
    /\ pc' = "idle"

\* Lines 210 and 235: fflush(_fh) after w1 was printed.
fflush(w1) ==
    /\ file' = flushed(file, w1)
    /\ rpos' = flushed_rpos(type, file, w1, rpos)
    /\ wbuf' = <<>>

\* Lines 207-212: content that is not a stream is printed and flushed.
write_plain(content) ==
    LET r  == prt_value(content)
        w1 == wbuf \o r.out
    IN  /\ Len(file) + Len(w1) <= MaxSink
        /\ nprt' = IF r.thrown THEN 0 ELSE 1
        /\ npull' = 0
        /\ lvp' = Null
        /\ IF r.thrown
             THEN /\ content_error(E_STRINGS)
                  /\ wbuf' = w1
                  /\ UNCHANGED <<file, rpos>>
             ELSE /\ fflush(w1)
                  /\ err' = NoError
                  /\ ret' = content
                  /\ fh' = fh
                  /\ pc' = "idle"

\* A variant of the loop that prints the empty LinkValues too.
printable_all(vals) == vals

\* Line 231: the batch items that are printed (not an empty LinkValue).
printable(vals) ==
    SelectSeq(vals, LAMBDA v : ~(is_type(v, "LINK_VALUE") /\ size(v) = 0))

\* Everything the loop prints for a producer that ends after its batches.
stream_text(content) ==
    Concat([i \in 1..Len(content.kids) |->
               prt_each(printable(content.kids[i].kids)).out])

\* Lines 196-215: evaluate an executable cref, then print, or enter the loop.
\* (A producer that ends is written only where all it prints fits the
\* bound of the sink.)
write_body(cref) ==
    LET content == IF is_executable(cref) THEN execute(cref) ELSE cref
    IN  /\ nexec' = IF is_executable(cref) THEN 1 ELSE 0
        /\ IF nothing_to_write(content)
             THEN /\ content_error(E_NOTHING)
                  /\ npull' = 0 /\ nprt' = 0 /\ lvp' = Null
                  /\ UNCHANGED <<file, rpos, wbuf>>
           ELSE IF ~is_type(content, "LINK_STREAM_VALUE")
             THEN write_plain(content)
           ELSE /\ content.loop \/
                     Len(file) + Len(wbuf) + Len(stream_text(content))
                        <= MaxSink
                /\ pc' = "drain"
                /\ lvp' = content
                /\ npull' = 0 /\ nprt' = 0
                /\ err' = NoError
                /\ ret' = Null
                /\ UNCHANGED <<fh, file, rpos, wbuf>>

\* Lines 189-215: write_out up to its return, its throw, or the entry of
\* the loop.
TextFileStream_write_out ==
    /\ phase = "live" /\ type = "TextFileStream" /\ pc = "idle"
    /\ \E cref \in Contents :
         /\ arg' = cref
         /\ IF not_open THEN write_not_open ELSE write_body(cref)
    /\ op' = "write_out"
    /\ rd' = "none"
    /\ sink0' = file \o wbuf
    /\ UNCHANGED <<phase, type, uri, fresh, value, xterm_pid, role, fd,
                   fpath, nopen, kills, nupd, nhalt, eof, got, file0, killed_open,
                   descvars>>

\* nprinted at the end of the for loop of lines 229-234 (or at its throw).
RECURSIVE nprinted(_)
nprinted(items) ==
    IF items = <<>> \/ prt_value(Head(items)).thrown THEN 0
    ELSE 1 + nprinted(Tail(items))

\* A variant of the loop without the "nothing was printed" exit.
no_progress_ignored(n) == FALSE

\* Line 236: if (0 == nprinted) break
no_progress(n) == n = 0

\* Lines 216-238: one turn of the while (true) loop.
drain_step ==
    LET vals  == value_of(lvp)
        items == printable(vals)
        r     == prt_each(items)
        w1    == wbuf \o r.out
    IN  /\ lvp' = pulled(lvp)
        /\ npull' = Sat(npull)
        /\ IF vals = <<>>
             THEN /\ pc' = "idle"
                  /\ ret' = lvp'
                  /\ UNCHANGED <<fh, err, nprt, file, rpos, wbuf>>
           ELSE /\ Len(file) + Len(w1) <= MaxSink
                /\ nprt' = Min(nprt + nprinted(items), CapCalls)
                /\ IF r.thrown
                     THEN /\ content_error(E_STRINGS)
                          /\ wbuf' = w1
                          /\ UNCHANGED <<file, rpos>>
                     ELSE /\ fflush(w1)
                          /\ UNCHANGED <<fh, err>>
                          /\ IF no_progress(nprinted(items))
                               THEN pc' = "idle" /\ ret' = lvp'
                               ELSE pc' = "drain" /\ ret' = Null

\* Lines 216-238, for a TextFileStream.
TextFileStream_write_out_loop ==
    /\ phase = "live" /\ type = "TextFileStream" /\ pc = "drain"
    /\ drain_step
    /\ UNCHANGED <<phase, type, uri, fresh, value, xterm_pid, role, fd,
                   fpath, nopen, kills, nupd, nhalt, op, arg, rd, eof, nexec,
                   sink0, got, file0, killed_open, descvars>>

-----------------------------------------------------------------------------
(* TerminalStream *)

\* A constructor that throws: no object exists afterwards.
ctor_throws(e) ==
    /\ Called("init", e, Null)
    /\ phase' = "failed"
    /\ fh' = FALSE

\* Lines 85-132.  The environment decides how far init gets: which of
\* posix_openpt, unlockpt, ptsname_r and fork fails, in which of the two
\* processes fork returns, whether execl replaces the child's image, and
\* whether fopen of the slave device gives a handle.
TerminalStream_init ==
    \E step \in {"openpt", "unlockpt", "ptsname", "fork", "parent",
                 "child_exec", "child_noexec"} :
    \E opened \in BOOLEAN :
       CASE step = "openpt" ->
              /\ ctor_throws(E_PTY_OPEN)
              /\ UNCHANGED <<fd, xterm_pid, role>>
         [] step = "unlockpt" ->
              /\ ctor_throws(E_PTY_UNLOCK)
              /\ fd' = TRUE
              /\ UNCHANGED <<xterm_pid, role>>
         [] step = "ptsname" ->
              /\ ctor_throws(E_PTY_NAME)
              /\ fd' = TRUE
              /\ UNCHANGED <<xterm_pid, role>>
         [] step = "fork" ->
              /\ ctor_throws(E_FORK)
              /\ fd' = TRUE
              /\ xterm_pid' = -1
              /\ UNCHANGED role
         [] step = "parent" ->
              /\ xterm_pid' = XtermPid
              /\ role' = "parent"
              /\ fd' = FALSE
              /\ fh' = opened
              /\ Called("init", NoError, Null)
              /\ phase' = "live"
         [] step = "child_exec" ->
              \* execl does not return: the process is xterm from here on
              /\ xterm_pid' = 0
              /\ role' = "child"
              /\ fd' = TRUE
              /\ fh' = FALSE
              /\ Called("init", NoError, Null)
              /\ phase' = "replaced"
         [] step = "child_noexec" ->
              \* execl failed and returned: the child runs on
              /\ xterm_pid' = 0
              /\ role' = "child"
              /\ fd' = FALSE
              /\ fh' = opened
              /\ Called("init", NoError, Null)
              /\ phase' = "live"

\* Lines 46-64: the three constructors all call init().
TerminalStream_ctor ==
    /\ phase = "new"
    /\ type' = "TerminalStream"
    /\ TerminalStream_init
    /\ rd' = "none"
    /\ UNCHANGED <<uri, fresh, value, file, rpos, wbuf, fpath, nopen, kills,
                   nupd, nhalt, eof, sink0, got, file0, killed_open, descvars>>

\* A variant of the kill that forgets "_xterm_pid = 0".
halt_kill_keeps_pid ==
    /\ kills' = IF xterm_pid # 0 THEN Sat(kills) ELSE kills
    /\ killed_open' = (killed_open \/ (xterm_pid # 0 /\ fh'))
    /\ xterm_pid' = xterm_pid

\* A variant of the kill without the test of _xterm_pid.
halt_kill_unguarded ==
    /\ kills' = Sat(kills)
    /\ killed_open' = (killed_open \/ fh')
    /\ xterm_pid' = 0

\* Lines 78-80: kill the child if one is tracked.  The kill comes after
\* lines 74-76, so the handle it finds is the one they leave (fh').
halt_kill ==
    /\ kills' = IF xterm_pid # 0 THEN Sat(kills) ELSE kills
    /\ killed_open' = (killed_open \/ (xterm_pid # 0 /\ fh'))
    /\ xterm_pid' = 0

\* A variant of the end of halt() that forgets "_value.clear()".
halt_clear_forgotten == value' = value

\* Line 82.
halt_clear == value' = <<>>

\* Lines 72-83.  fclose writes out what is buffered.
halt ==
    /\ IF fh
         THEN /\ file' = flushed(file, wbuf)
              /\ wbuf' = <<>>
         ELSE UNCHANGED <<file, wbuf>>
    /\ fh' = FALSE
    /\ halt_kill
    /\ halt_clear

\* A call of halt() from outside.
TerminalStream_halt ==
    /\ phase = "live" /\ type = "TerminalStream" /\ pc = "idle"
    /\ halt
    /\ Called("halt", NoError, Null)
    /\ rd' = "none"
    /\ nhalt' = Sat(nhalt)
    /\ UNCHANGED <<phase, type, uri, fresh, role, rpos, fd, fpath, nopen,
                   nupd, eof, sink0, got, file0, descvars>>

\* Lines 66-70: the destructor calls halt().
TerminalStream_dtor ==
    /\ phase = "live" /\ type = "TerminalStream" /\ pc = "idle"
    /\ halt
    /\ phase' = "dead"
    /\ Called("dtor", NoError, Null)
    /\ rd' = "none"
    /\ nhalt' = Sat(nhalt)
    /\ UNCHANGED <<type, uri, fresh, role, rpos, fd, fpath, nopen, nupd, eof,
                   sink0, got, file0, descvars>>

\* Line 180.
TerminalStream_update_closed ==
    /\ value' = <<>>
    /\ rd' = "none"
    /\ UNCHANGED <<fh, file, wbuf, xterm_pid, kills, nhalt, eof, killed_open>>

\* A variant of the end-of-resource branch that closes the handle and
\* leaves the child alone, as TextFileStream::update does.
TerminalStream_update_eof_close_only ==
    /\ file' = flushed(file, wbuf)
    /\ wbuf' = <<>>
    /\ fh' = FALSE
    /\ value' = <<>>
    /\ UNCHANGED <<xterm_pid, kills, killed_open, nhalt>>

\* Lines 188-192: fgets returned nullptr; halt() and return.
TerminalStream_update_eof ==
    /\ halt
    /\ nhalt' = Sat(nhalt)

\* Lines 182-195: one fgets on the terminal: a line typed there, or nullptr
\* when the terminal is gone.  Output still buffered is written out when
\* the handle turns to reading.
TerminalStream_update_read ==
    \E buff \in TermChunks \cup {<<>>} :
       /\ rd' = IF buff = <<>> THEN "nullptr" ELSE "line"
       /\ eof' = (eof \/ buff = <<>>)
       /\ IF buff = <<>>
            THEN TerminalStream_update_eof
            ELSE /\ value' = <<buff>>
                 /\ file' = flushed(file, wbuf)
                 /\ wbuf' = <<>>
                 /\ UNCHANGED <<fh, xterm_pid, kills, nhalt, killed_open>>

\* Lines 178-196.
TerminalStream_update ==
    /\ phase = "live" /\ type = "TerminalStream" /\ pc = "idle"
    /\ IF ~fh THEN TerminalStream_update_closed
       ELSE TerminalStream_update_read
    /\ op' = "update" /\ err' = NoError
    /\ arg' = Null /\ ret' = Null /\ nexec' = 0 /\ npull' = 0 /\ nprt' = 0
    /\ lvp' = Null /\ pc' = "idle"
    /\ nupd' = Sat(nupd)
    /\ UNCHANGED <<phase, type, uri, fresh, role, rpos, fd, fpath, nopen,
                   sink0, got, file0, descvars>>

\* OutputStream::do_write_out: the evaluate-then-print-or-drain protocol of
\* the base class, printing through TerminalStream::do_write (lines 201-204).
do_write_out(cref) == write_body(cref)

\* Lines 207-215.
TerminalStream_write_out ==
    /\ phase = "live" /\ type = "TerminalStream" /\ pc = "idle"
    /\ \E cref \in Contents :
         /\ arg' = cref
         /\ IF not_open THEN write_not_open ELSE do_write_out(cref)
    /\ op' = "write_out"
    /\ rd' = "none"
    /\ sink0' = file \o wbuf
    /\ UNCHANGED <<phase, type, uri, fresh, value, xterm_pid, role, fd,
                   fpath, nopen, kills, nupd, nhalt, eof, got, file0, killed_open,
                   descvars>>

\* The loop of OutputStream::do_write_out on a stream content.
do_write_out_loop ==
    /\ phase = "live" /\ type = "TerminalStream" /\ pc = "drain"
    /\ drain_step
    /\ UNCHANGED <<phase, type, uri, fresh, value, xterm_pid, role, fd,
                   fpath, nopen, kills, nupd, nhalt, op, arg, rd, eof, nexec,
                   sink0, got, file0, killed_open, descvars>>

-----------------------------------------------------------------------------
(* TerminalStream: the description of its commands *)

TypeNode(name) == Val("TypeNode", <<name>>, <<>>, <<>>, FALSE)
SexNode(name)  == Val("SexNode", <<name>>, <<>>, <<>>, FALSE)
Connector(dir, what) ==
    Val("Connector", <<>>, <<>>, <<SexNode(dir), what>>, FALSE)

\* Lines 145-159: the one command, "write": a WriteLink and an ItemNode go
\* in, a LinkValue of StringValue comes back.
write_cmd ==
    Val("Section", <<>>, <<>>,
        << Val("ItemNode", <<"the write stuff command">>, <<>>, <<>>, FALSE),
           Val("ConnectorSeq", <<>>, <<>>,
               << Connector("command", TypeNode("WriteLink")),
                  Connector("command", TypeNode("ItemNode")),
                  Connector("reply",
                      Val("LinkSignatureLink", <<>>, <<>>,
                          <<TypeNode("LinkValue"), TypeNode("StringValue")>>,
                          FALSE)) >>,
               FALSE) >>,
        FALSE)

\* Line 162: createLink(cmds, CHOICE_LINK)
ChoiceLink(cmds) == Val("ChoiceLink", <<>>, <<>>, cmds, FALSE)

\* as->add_atom(h): the atom as the AtomSpace holds it; of the undefined
\* handle, the undefined handle.
add_atom(h) == IF h = Null THEN Null ELSE h

\* Lines 138-163: build _global_desc unless it is set.  Nothing in the two
\* source files calls do_describe(); it is called from outside, or never.
do_describe ==
    /\ phase = "live" /\ type = "TerminalStream" /\ pc = "idle"
    /\ global_desc' = IF global_desc # Null THEN global_desc
                      ELSE ChoiceLink(<<write_cmd>>)
    /\ Called("do_describe", NoError, Null)
    /\ rd' = "none"
    /\ UNCHANGED <<objvars, nopen, eof, nupd, nhalt, sink0, got, file0, killed_open,
                   description>>

\* Lines 167-172.
describe ==
    /\ phase = "live" /\ type = "TerminalStream" /\ pc = "idle"
    /\ IF description # Null
         THEN /\ ret' = add_atom(description)
              /\ UNCHANGED description
         ELSE /\ description' = add_atom(global_desc)
              /\ ret' = description'
    /\ op' = "describe" /\ err' = NoError /\ arg' = Null
    /\ nexec' = 0 /\ npull' = 0 /\ nprt' = 0 /\ lvp' = Null /\ pc' = "idle"
    /\ rd' = "none"
    /\ UNCHANGED <<objvars, nopen, eof, nupd, nhalt, sink0, got, file0, killed_open,
                   global_desc>>

-----------------------------------------------------------------------------
(* The specification: any sequence of calls on one stream object *)

Next ==
    \/ TextFileStream_ctor
    \/ TextFileStream_ctor_handle
    \/ TextFileStream_update
    \/ TextFileStream_write_out
    \/ TextFileStream_write_out_loop
    \/ TextFileStream_dtor
    \/ TerminalStream_ctor
    \/ TerminalStream_update
    \/ TerminalStream_halt
    \/ TerminalStream_write_out
    \/ do_write_out_loop
    \/ TerminalStream_dtor
    \/ do_describe
    \/ describe

Spec == Init /\ [][Next]_vars

\* The loop of write_out is running code: once inside, its next turn is taken.
FairSpec ==
    /\ Spec
    /\ WF_vars(TextFileStream_write_out_loop)
    /\ WF_vars(do_write_out_loop)

-----------------------------------------------------------------------------
(* The serializer on its own: prt_value applied to one value on an open,   *)
(* empty file stream.                                                      *)

\* All sequences of at most MaxWidth elements of S.
Seqs(S) == UNION {[1..n -> S] : n \in 0..MaxWidth}

\* Values without containers.
Values0 == {StringValue(<<ab, cd>>), Node(foo), FloatValue}
Atoms0  == {Node(foo)}

\* Containers of those.  A ListLink or SetLink holds atoms only.
Atoms1 ==
    Atoms0 \cup {ListLink(q) : q \in Seqs(Atoms0)}
           \cup {SetLink(q) : q \in Seqs(Atoms0)}
Values1 ==
    Values0 \cup Atoms1 \cup {LinkValue(q) : q \in Seqs(Values0)}

\* Containers of containers, and two links that are not writable.
PrtInputs ==
    Values1 \cup {LinkValue(q) : q \in Seqs(Values1)}
            \cup {ListLink(q) : q \in Seqs(Atoms1)}
            \cup {SetLink(q) : q \in Seqs(Atoms1)}
            \cup {EdgeLink(<<Node(foo)>>),
                  ListLink(<<Node(foo), EdgeLink(<<>>)>>)}

InitPrt ==
    /\ phase = "live"
    /\ type = "TextFileStream"
    /\ uri = <<>>
    /\ fh = TRUE
    /\ fresh = TRUE
    /\ value = <<>>
    /\ xterm_pid = 0
    /\ role = "parent"
    /\ file = <<>>
    /\ rpos = 0
    /\ wbuf = <<>>
    /\ fd = FALSE
    /\ fpath = <<>>
    /\ nopen = 1
    /\ kills = 0
    /\ op = "none"
    /\ err = NoError
    /\ arg \in PrtInputs
    /\ ret = Null
    /\ rd = "none"
    /\ eof = FALSE
    /\ nexec = 0
    /\ npull = 0
    /\ nprt = 0
    /\ pc = "idle"
    /\ lvp = Null
    /\ nupd = 0
    /\ nhalt = 0
    /\ sink0 = <<>>
    /\ got = <<>>
    /\ file0 = <<>>
    /\ killed_open = FALSE
    /\ global_desc = Null
    /\ description = Null

\* Lines 148-186: one call prt_value(arg).
prt_value_call ==
    /\ op = "none"
    /\ LET r == prt_value(arg)
       IN  /\ wbuf' = wbuf \o r.out
           /\ err' = IF r.thrown THEN E_STRINGS ELSE NoError
    /\ op' = "prt_value"
    /\ UNCHANGED <<phase, type, uri, fh, fresh, value, xterm_pid, role, file,
                   rpos, fd, fpath, nopen, kills, arg, ret, rd, eof, nexec,
                   npull, nprt, pc, lvp, nupd, nhalt, sink0, got, file0, killed_open,
                   global_desc, description>>

NextPrt == prt_value_call

SpecPrt == InitPrt /\ [][NextPrt]_vars

-----------------------------------------------------------------------------
(* Properties *)

IsFile == type = "TextFileStream"
IsTerm == type = "TerminalStream"

\* A step that is a call of update(): every other action names itself in op.
UpdateStep == op' = "update"

\* C1: on a TextFileStream the first update() after construction yields
\* exactly one item, the URL as given, sets _fresh to false and reads
\* nothing from the file (content and read position are unchanged); the
\* second update() does call fgets; _fresh holds only before the first
\* update() and, once false, is never true again.
C1_FreshConsumedOnce ==
    [][ /\ (phase = "new" /\ phase' = "live" /\ type' = "TextFileStream") =>
             /\ uri' = arg'.name
             /\ fresh'
             /\ nupd' = 0
        /\ (phase = "live" /\ IsFile) =>
             /\ uri' = uri
             /\ (UpdateStep /\ nupd = 0) =>
                   /\ value' = <<uri>>
                   /\ ~fresh'
                   /\ rd' = "none"
                   /\ file' = file /\ rpos' = rpos /\ wbuf' = wbuf
             /\ (UpdateStep /\ nupd = 1) => rd' # "none"
             /\ fresh => nupd = 0
             /\ ~fresh => ~fresh'
      ]_vars

\* C1 witness: a second update() on a file stream has read a real line.
C1_Witness ==
    /\ phase = "live" /\ IsFile
    /\ op = "update" /\ nupd = 2
    /\ rd = "line" /\ value = <<<<"a", NL>>>>
    /\ ~fresh

\* C2: for both streams, an update() whose fgets returns nullptr leaves the
\* handle closed and the value empty, and from then on every update()
\* leaves the value empty, throws nothing, and does not call fgets.
C2_EndOfResourceSticky ==
    [][ phase = "live" =>
          /\ (UpdateStep /\ rd' = "nullptr") =>
                (~fh' /\ value' = <<>> /\ err' = NoError)
          /\ eof => (~fh /\ value = <<>>)
          /\ (eof /\ UpdateStep) =>
                (~fh' /\ value' = <<>> /\ err' = NoError /\ rd' = "none")
      ]_vars

\* C2 witness: an update() made after the one that saw the end.
C2_Witness ==
    /\ phase = "live" /\ IsFile
    /\ eof /\ op = "update" /\ rd = "none"
    /\ ~fh /\ value = <<>>

\* C3: write_out on a closed handle throws "stream not open" whatever the
\* content is, before the content is evaluated and before anything is
\* printed.
C3_WriteAfterCloseFails ==
    [][ (phase = "live" /\ pc = "idle" /\ ~fh /\ op' = "write_out") =>
          /\ err' = E_NOT_OPEN
          /\ ret' = Null
          /\ nexec' = 0 /\ npull' = 0 /\ nprt' = 0
          /\ file' = file /\ wbuf' = wbuf
          /\ pc' = "idle"
      ]_vars

\* C3 witness: a write of an executable, streaming content on a closed
\* stream has thrown.
C3_Witness ==
    /\ phase = "live" /\ ~fh
    /\ op = "write_out" /\ err = E_NOT_OPEN
    /\ is_executable(arg)
    /\ is_type(execute(arg), "LINK_STREAM_VALUE")

\* Everything printed to the handle so far, flushed or not.
Sink == file \o wbuf

\* An empty nested-value wrapper.
EmptyWrapper(v) == v.kind = "LinkValue" /\ v.kids = <<>>

\* A producer whose every pull returns a non-empty batch of empty wrappers.
Pathological(s) ==
    /\ s.kind = "LinkStreamValue"
    /\ s.kids # <<>>
    /\ s.loop
    /\ \A i \in 1..Len(s.kids) :
         /\ s.kids[i].kids # <<>>
         /\ \A j \in 1..Len(s.kids[i].kids) : EmptyWrapper(s.kids[i].kids[j])

\* C4: when the content written to a TextFileStream is a stream whose every
\* pull returns a non-empty batch of empty wrappers, the first turn of the
\* loop is the last: write_out returns after exactly one pull, having
\* printed nothing, and it does return.
C4_DrainStopsOnEmptyWrappers ==
    /\ [][ (IsFile /\ pc = "drain" /\ npull = 0 /\ Pathological(lvp)) =>
             /\ pc' = "idle"
             /\ npull' = 1
             /\ nprt' = 0
             /\ err' = NoError
             /\ ret' = lvp
             /\ Sink' = Sink
         ]_vars
    /\ []((IsFile /\ Pathological(lvp)) =>
             (npull = 0 \/ (npull = 1 /\ pc = "idle")))
    /\ ((IsFile /\ pc = "drain" /\ Pathological(lvp)) ~> pc = "idle")

\* C4 witness: write_out has returned from such a stream.
C4_Witness ==
    /\ IsFile
    /\ op = "write_out" /\ pc = "idle" /\ err = NoError
    /\ is_executable(arg)
    /\ Pathological(execute(arg))
    /\ ret = execute(arg)
    /\ npull = 1 /\ nprt = 0

\* A step that runs halt() on a live TerminalStream from outside: a call of
\* halt(), or the destructor.
HaltStep == phase = "live" /\ IsTerm /\ op' \in {"halt", "dtor"}

\* C5: halt() throws nothing and leaves the handle closed, no child
\* tracked and the value empty; a halt() that is not the first (a second
\* call, or the destructor after a call) changes nothing of the stream.
C5_HaltIdempotent ==
    [][ HaltStep =>
          /\ err' = NoError
          /\ ~fh' /\ xterm_pid' = 0 /\ value' = <<>>
          /\ nhalt >= 1 =>
               UNCHANGED <<fh, xterm_pid, value, file, rpos, wbuf, fd, kills,
                           role>>
      ]_vars

\* C5 witness: halt() was called twice on a session that had a child.
C5_Witness ==
    /\ phase = "live" /\ IsTerm
    /\ op = "halt" /\ nhalt = 2 /\ kills = 1
    /\ ~fh /\ xterm_pid = 0 /\ value = <<>>

\* C6: in every state of a constructed stream, a closed handle implies an
\* empty value.
C6_ClosedImpliesEmpty ==
    phase = "live" => (~fh => value = <<>>)

\* C6 witness: a terminal that had delivered a line is closed.
C6_Witness ==
    /\ phase = "live" /\ IsTerm /\ ~fh
    /\ nupd = 2 /\ eof /\ op = "update" /\ rd = "nullptr"

\* C7: a closed handle is never open again, whatever is called.
C7_ClosedIsTerminal ==
    [][ (phase = "live" /\ ~fh) => ~fh' ]_vars

\* C7 witness: a stream closed at end of file, written to afterwards.
C7_Witness ==
    /\ phase = "live" /\ IsFile /\ ~fh
    /\ eof /\ op = "write_out"

\* The URL has the form file:///absolute/path.
FileForm(url) ==
    /\ Len(url) >= Len(FILE_PREFIX)
    /\ \A i \in 1..Len(FILE_PREFIX) : url[i] = FILE_PREFIX[i]

\* The state right after a TextFileStream constructor was given a URL.
AfterFileCtor == type = "TextFileStream" /\ op = "init" /\ err # E_SENSORY

\* C8 (as claimed): a URL that is not of the form file:///absolute/path is
\* rejected as unsupported before any fopen; for a URL of that form fopen
\* is called once, on the URL without its first 7 characters; a failed
\* fopen aborts the construction, so a constructed stream has an open
\* handle.
C8_ConstructionContract ==
    AfterFileCtor =>
       /\ ~FileForm(arg.name) =>
             (err = E_UNSUPPORTED /\ nopen = 0 /\ phase = "failed")
       /\ FileForm(arg.name) =>
             (nopen = 1 /\ fpath = SubSeq(arg.name, 8, Len(arg.name)))
       /\ err = E_OPEN => (phase = "failed" /\ ~fh)
       /\ phase = "live" => (fh /\ err = NoError)

\* The parts of C8 that do not depend on what fopen reads through fpath.
C8_RejectionAndOpenFailure ==
    AfterFileCtor =>
       /\ ~FileForm(arg.name) =>
             (err = E_UNSUPPORTED /\ nopen = 0 /\ phase = "failed")
       /\ FileForm(arg.name) => nopen = 1
       /\ err = E_OPEN => (phase = "failed" /\ ~fh)
       /\ phase = "live" => (fh /\ err = NoError)

\* The writable values: text sequences, named items, and containers of
\* writable values.
RECURSIVE Writable(_)
Writable(v) ==
    \/ v.kind \in {"StringValue", "ItemNode"}
    \/ /\ v.kind \in {"LinkValue", "ListLink", "SetLink"}
       /\ \A i \in 1..Len(v.kids) : Writable(v.kids[i])

\* The leaves of a value, depth first, in order.
RECURSIVE Leaves(_)
Leaves(v) ==
    IF v.kind \in {"LinkValue", "ListLink", "SetLink"}
      THEN Concat([i \in 1..Len(v.kids) |-> Leaves(v.kids[i])])
      ELSE <<v>>

\* What a leaf contributes: the strings of a text sequence one after the
\* other, or a space and the name of an item.
LeafText(l) ==
    IF l.kind = "StringValue"
      THEN Concat(l.strs)
      ELSE <<" ">> \o l.name

\* The concatenation of the contributions of the leaves.
Flattened(v) ==
    Concat([i \in 1..Len(Leaves(v)) |-> LeafText(Leaves(v)[i])])

\* C9: prt_value of a value built from text sequences, named items, nested
\* value containers and list/set groupings prints the depth-first, in-order
\* concatenation of its leaves and nothing else (a text sequence: its
\* strings with no separator; an item: a space and its name); ["ab","cd"]
\* gives "abcd" and the item foo gives " foo"; any other value throws.
C9_SerializeIsLeafConcatenation ==
    op = "prt_value" =>
       /\ IF Writable(arg)
            THEN err = NoError /\ wbuf = Flattened(arg)
            ELSE err = E_STRINGS
       /\ arg = StringValue(<<ab, cd>>) => wbuf = <<"a", "b", "c", "d">>
       /\ arg = Node(foo) => wbuf = <<" ", "f", "o", "o">>

\* C9 witness: a container of a text sequence and a list of items was
\* printed.
C9_Witness ==
    /\ op = "prt_value" /\ err = NoError
    /\ arg = LinkValue(<<StringValue(<<ab, cd>>),
                         ListLink(<<Node(foo), Node(foo)>>)>>)
    /\ wbuf = <<"a", "b", "c", "d", " ", "f", "o", "o", " ", "f", "o", "o">>

\* The exceptions of an unwritable content.
ContentErrors == {E_NOTHING, E_STRINGS}

\* What write_out prints for cref: what it evaluates to, or cref itself.
ContentOf(cref) == IF is_executable(cref) THEN execute(cref) ELSE cref

\* C10: on a TextFileStream a write_out that throws for its content (not
\* writable, or evaluated to nothing) leaves the handle open, and the next
\* write_out, given a writable content, throws nothing, returns the content
\* and appends its text to the sink.
C10_ContentErrorNotFatal ==
    [][ (phase = "live" /\ IsFile) =>
          /\ (op' = "write_out" /\ err' \in ContentErrors) =>
                (fh /\ fh' /\ phase' = "live" /\ pc' = "idle")
          /\ ( /\ op = "write_out" /\ err \in ContentErrors
               /\ op' = "write_out"
               /\ Writable(ContentOf(arg')) ) =>
                /\ err' = NoError
                /\ fh'
                /\ ret' = ContentOf(arg')
                /\ file' = Sink \o Flattened(ContentOf(arg'))
                /\ wbuf' = <<>>
      ]_vars

\* C10 witness: the StringValue of a container was printed before its
\* FloatValue made write_out throw; the next write_out, of the item foo,
\* has returned.
C10_Witness ==
    /\ phase = "live" /\ IsFile /\ fh
    /\ op = "write_out" /\ err = NoError
    /\ arg = Node(foo) /\ ret = Node(foo)
    /\ file = <<"c", "d", " ", "f", "o", "o">>

\* C11 (as claimed): whenever a write_out on an open TextFileStream has
\* thrown for its content, the sink holds what it held when the call was
\* entered: nothing of the content was written.
C11_FailedWriteLeavesSinkUntouched ==
    (phase = "live" /\ IsFile /\ op = "write_out" /\ err \in ContentErrors) =>
       Sink = sink0

\* What does hold of a failed write_out: the sink is what it was, followed
\* by the text of the leaves printed before the throw, and a content that
\* evaluated to nothing leaves the sink as it was.
C11_FailedWriteAppendsPrefix ==
    (phase = "live" /\ IsFile /\ op = "write_out" /\ err \in ContentErrors) =>
       /\ Len(sink0) <= Len(Sink)
       /\ SubSeq(Sink, 1, Len(sink0)) = sink0
       /\ err = E_NOTHING => Sink = sink0

\* C12 (as claimed): the description of the commands is built on the first
\* request and never modified once set, and every describe() returns that
\* one description, never the undefined handle.
C12_DescriptionWriteOnce ==
    [][ /\ global_desc # Null => global_desc' = global_desc
        /\ op' = "describe" =>
              /\ global_desc' = ChoiceLink(<<write_cmd>>)
              /\ ret' = global_desc'
      ]_vars

\* What does hold of the description: _global_desc is undefined or the one
\* description, is never modified once set, and what describe() returns is
\* undefined or that description.
C12_GlobalDescNeverModified ==
    [][ /\ global_desc \in {Null, ChoiceLink(<<write_cmd>>)}
        /\ global_desc # Null => global_desc' = global_desc
        /\ op' = "describe" => ret' \in {Null, global_desc'}
      ]_vars

\* C13: on a TerminalStream every update() on an open handle calls fgets,
\* the first one after construction included (no synthetic first value);
\* an update() whose fgets returns nullptr leaves the handle closed, the
\* value empty and no child tracked, and has sent SIGKILL to the child if
\* one was tracked (and only then); an update() that reads a line sets the
\* value to one item, that line, and changes nothing else of the session.
C13_TerminalUpdateEscalates ==
    [][ (phase = "live" /\ IsTerm /\ UpdateStep) =>
          /\ fh => rd' \in {"line", "nullptr"}
          /\ ~fh => rd' = "none"
          /\ rd' = "nullptr" =>
                /\ ~fh' /\ value' = <<>> /\ xterm_pid' = 0
                /\ kills' = IF xterm_pid # 0 THEN kills + 1 ELSE kills
          /\ rd' = "line" =>
                /\ Len(value') = 1 /\ value'[1] \in TermChunks
                /\ UNCHANGED <<fh, xterm_pid, kills, fd, role, phase, descvars>>
                /\ Sink' = Sink
      ]_vars

\* C13 witness: the first update() of a session with a child found the
\* terminal gone: the child was killed.
C13_Witness ==
    /\ phase = "live" /\ IsTerm
    /\ op = "update" /\ nupd = 1 /\ rd = "nullptr"
    /\ ~fh /\ value = <<>> /\ xterm_pid = 0 /\ kills = 1

\* C14: over any sequence of update(), halt() and destruction of one
\* TerminalStream, SIGKILL is sent to the child at most once, only while
\* _xterm_pid is not 0, and after the handle was closed (never while it is
\* open); after the first halt(), called or run by update() at the end of
\* the terminal or by the destructor, _xterm_pid is 0 in every state.
C14_KillAtMostOnce ==
    /\ [][ IsTerm =>
             (kills' # kills =>
                /\ xterm_pid # 0
                /\ kills = 0 /\ kills' = 1
                /\ ~fh'
                /\ xterm_pid' = 0)
         ]_vars
    /\ [](IsTerm => /\ kills <= 1
                    /\ ~killed_open
                    /\ nhalt >= 1 => xterm_pid = 0)

\* C14 witness: a session with a child saw the end of the terminal in
\* update(), was halted again, and was destroyed: one kill in all.
C14_Witness ==
    /\ IsTerm /\ phase = "dead"
    /\ eof /\ nhalt = 2 /\ kills = 1 /\ xterm_pid = 0

\* The stream c after n pulls.
RECURSIVE PulledN(_, _)
PulledN(c, n) == IF n = 0 THEN c ELSE PulledN(pulled(c), n - 1)

\* r is the stream c, some pulls later.
DrainedStateOf(r, c) ==
    /\ c.kind = "LinkStreamValue"
    /\ \E n \in 0..(Len(c.kids) + 1) : r = PulledN(c, n)

\* C15: a write_out on an open TextFileStream evaluates its argument if
\* and only if the argument is executable, once, on entry (the loop does
\* not evaluate again); what is written is the text of what the evaluation
\* gave, so the evaluation comes first; an evaluation that gives nothing
\* throws "Expecting something to write" with nothing written; a write_out
\* that returns, returns the content: the argument itself if it is not
\* executable, else what it evaluated to, a stream in its drained state.
C15_EvaluatedOnceThenWritten ==
    /\ [][ (phase = "live" /\ IsFile /\ pc = "idle" /\ fh /\ op' = "write_out")
           =>
             /\ nexec' = IF arg'.kind = "ExecutionOutputLink" THEN 1 ELSE 0
             /\ (nexec' = 1 /\ arg'.kids[1] = Null) =>
                   (err' = E_NOTHING /\ Sink' = Sink /\ ret' = Null
                    /\ pc' = "idle")
             /\ pc' = "drain" =>
                   (lvp' = ContentOf(arg') /\ Sink' = Sink /\ ret' = Null)
             /\ (pc' = "idle" /\ err' = NoError) =>
                   /\ ret' = ContentOf(arg')
                   /\ Writable(ret')
                   /\ file' = Sink \o Flattened(ret') /\ wbuf' = <<>>
         ]_vars
    /\ [][ (phase = "live" /\ IsFile /\ pc = "drain") =>
             /\ nexec' = nexec /\ arg' = arg
             /\ DrainedStateOf(lvp', ContentOf(arg))
             /\ (pc' = "idle" /\ err' = NoError) => ret' = lvp'
         ]_vars

\* C15 witness: an executable argument that evaluates to a StringValue was
\* written: one evaluation, its result returned and printed.
C15_Witness ==
    /\ phase = "live" /\ IsFile /\ fh
    /\ op = "write_out" /\ err = NoError /\ pc = "idle"
    /\ arg = ExecLink(StringValue(<<ab, cd>>))
    /\ nexec = 1
    /\ ret = StringValue(<<ab, cd>>)
    /\ file = <<"a", NL, "a", "b", "c", "d">>

\* The items of a batch that are serialized: all but the empty wrappers.
Serialized(batch) == SelectSeq(batch, LAMBDA v : ~EmptyWrapper(v))

\* The text of a batch: that of its serialized items, in batch order.
BatchText(batch) ==
    Concat([i \in 1..Len(Serialized(batch)) |->
               Flattened(Serialized(batch)[i])])

WritableBatch(batch) == \A i \in 1..Len(batch) : Writable(batch[i])

\* The batch the next pull of the stream s returns.
NextBatch(s) == IF s.kids = <<>> THEN <<>> ELSE s.kids[1].kids

\* A producer all of whose items are writable.
WritableStream(s) ==
    /\ s.kind = "LinkStreamValue"
    /\ \A i \in 1..Len(s.kids) : WritableBatch(s.kids[i].kids)

\* A producer that, after finitely many pulls, yields an empty batch or a
\* batch made only of empty wrappers.
Stops(s) ==
    \/ s.kids = <<>>
    \/ ~s.loop
    \/ \E i \in 1..Len(s.kids) : Serialized(s.kids[i].kids) = <<>>

\* C16: in the loop of write_out on a TextFileStream, each turn pulls one
\* batch; an empty batch ends the loop with nothing written; of a
\* non-empty batch (of writable items) exactly the items that are not
\* empty wrappers are serialized, in batch order, and all of it is flushed
\* after the batch; another batch is pulled if and only if at least one
\* item was serialized.  So for a producer that yields an empty batch or a
\* batch of only empty wrappers after finitely many pulls write_out
\* eventually returns, and for any other producer it never returns.
C16_DrainLoop ==
    /\ [][ (phase = "live" /\ IsFile /\ pc = "drain") =>
             /\ npull' = Min(npull + 1, CapCalls)
             /\ \/ lvp' = lvp
                \/ /\ lvp.kids # <<>>
                   /\ lvp' = [lvp EXCEPT !.kids = Tail(lvp.kids)]
             /\ NextBatch(lvp) = <<>> =>
                   /\ pc' = "idle" /\ err' = NoError
                   /\ Sink' = Sink /\ nprt' = nprt
             /\ (NextBatch(lvp) # <<>> /\ WritableBatch(NextBatch(lvp))) =>
                   /\ err' = NoError
                   /\ file' = Sink \o BatchText(NextBatch(lvp))
                   /\ wbuf' = <<>>
                   /\ pc' = "drain" <=> Serialized(NextBatch(lvp)) # <<>>
                   /\ pc' = "idle" <=> Serialized(NextBatch(lvp)) = <<>>
         ]_vars
    /\ [][ ( /\ phase = "live" /\ IsFile /\ pc = "drain"
             /\ WritableStream(lvp) /\ ~Stops(lvp) ) =>
             (pc' = "drain" /\ WritableStream(lvp') /\ ~Stops(lvp'))
         ]_vars
    /\ ( ( /\ phase = "live" /\ IsFile /\ pc = "drain"
           /\ WritableStream(lvp) /\ Stops(lvp) )
         ~> (pc = "idle" /\ op = "write_out" /\ err = NoError) )

\* C16 witness: write_out has returned from a producer of two batches, the
\* second with an empty wrapper in it, after its third pull.
C16_Witness ==
    /\ phase = "live" /\ IsFile
    /\ op = "write_out" /\ pc = "idle" /\ err = NoError
    /\ arg = ExecLink(LinkStream(<<LinkValue(<<StringValue(<<ab>>)>>),
                                   LinkValue(<<LinkValue(<<>>), Node(cd)>>)>>,
                                 FALSE))
    /\ file = <<"a", "b", " ", "c", "d">>
    /\ wbuf = <<>>
    /\ npull = CapCalls
    /\ ret = LinkStream(<<>>, FALSE)

\* The next chunk of a text: up to and including its first newline, or, if
\* there is none within the buffer, the buffer-sized piece (BUFSZ - 1
\* characters, or all that is left).
Chunk(text) ==
    LET k   == Min(Len(text), BUFSZ - 1)
        nls == {i \in 1..k : text[i] = NL}
    IN  SubSeq(text, 1, IF nls = {} THEN k
                        ELSE CHOOSE i \in nls : \A j \in nls : i <= j)

\* C17 (as claimed): after the first, synthetic value every update() of a
\* TextFileStream that reads yields the next chunk of the file, the one
\* that follows what was read so far, and when update() meets the end of
\* the file the chunks read, one after the other, are the content of the
\* file (the content it had when it was opened, or the content it has
\* now).
C17_ReadsSequentialLossless ==
    /\ [][ (phase = "live" /\ IsFile /\ UpdateStep /\ rd' = "line") =>
             /\ Len(got) < Len(file')
             /\ value' = <<Chunk(substr(file', Len(got)))>>
             /\ got' = got \o value'[1]
         ]_vars
    /\ []((IsFile /\ eof) => (got = file0 \/ got = file))

\* What does hold of the reads: as long as nothing was written through the
\* stream, each update() that reads yields the chunk that follows what was
\* read so far, and at the end of the file all of it was read.
C17_ReadsLosslessUntilWritten ==
    /\ [][ ( /\ phase = "live" /\ IsFile /\ UpdateStep /\ rd' = "line"
             /\ file' = file0 ) =>
             /\ Len(got) < Len(file')
             /\ value' = <<Chunk(substr(file', Len(got)))>>
             /\ got' = got \o value'[1]
         ]_vars
    /\ []((IsFile /\ eof /\ file = file0) => got = file)

\* The state right after a TerminalStream constructor has run, in a process
\* that goes on running this program.
AfterTermCtor == IsTerm /\ op = "init" /\ phase # "replaced"

\* C18 (as claimed): in every process in which the constructor of a
\* TerminalStream returns, _xterm_pid is the pid of the xterm child, not 0:
\* the forked child never comes back from the constructor with a session
\* of its own.
C18_ConstructedTracksChild ==
    (AfterTermCtor /\ phase = "live") =>
       (xterm_pid = XtermPid /\ role = "parent")

\* What does hold: in the parent, a constructed session tracks the child.
C18_ParentTracksChild ==
    (AfterTermCtor /\ phase = "live" /\ role = "parent") =>
       xterm_pid = XtermPid

\* C19 (as claimed): a TerminalStream constructor that throws has closed
\* the pty master descriptor, and one that returns has an open handle.
C19_NoLeakNoClosedSession ==
    AfterTermCtor =>
       /\ phase = "failed" => ~fd
       /\ phase = "live" => fh

\* What does hold: a constructor that throws leaves no handle and no
\* object; one that returns has closed the master descriptor.
C19_ThrowLeavesNoHandle ==
    AfterTermCtor =>
       /\ phase = "failed" => (~fh /\ err # NoError)
       /\ phase = "live" => (~fd /\ err = NoError)

\* What the update() calls made from here on would read of the file: the
\* bytes after the position reading resumes at.
Unread ==
    substr(flushed(file, wbuf), flushed_rpos(type, file, wbuf, rpos))

IsPrefix(p, q) == Len(p) <= Len(q) /\ SubSeq(q, 1, Len(p)) = p

\* C20 (as claimed): a write_out on a TextFileStream, whether it returns
\* or throws, leaves _fresh, _value and the open/closed state of the
\* handle as they were, and leaves what later update() calls read as it
\* was: the bytes not yet read are still the next to be read.
C20_WriteOutChangesOnlySink ==
    [][ (phase = "live" /\ IsFile /\ op' = "write_out") =>
          /\ fresh' = fresh
          /\ value' = value
          /\ fh' = fh
          /\ IsPrefix(Unread, Unread')
      ]_vars

\* What does hold: write_out leaves _fresh, _value and the handle as they
\* were, so a write_out made before the first update() does not consume
\* the first, synthetic value.
C20_WriteOutKeepsFreshness ==
    [][ (phase = "live" /\ IsFile /\ op' = "write_out") =>
          /\ fresh' = fresh
          /\ value' = value
          /\ fh' = fh
          /\ uri' = uri
      ]_vars

=============================================================================
